---- MODULE Spec2Model ----
\* A model of the DNS message codec of dnsresolvr (dnsresolvr.go) and of its
\* byte cursor (internal/pkg/bytereader) and integer helpers (internal/pkg/utils).
\*
\* Bytes are integers 0..255, byte slices and strings are sequences of bytes.
\* A Go slice index k (0-based) is the sequence index k + 1.
EXTENDS Integers, Sequences, FiniteSets, TLC

VARIABLES
    pc,         \* position of the running function ("idle" between calls)
    stack,      \* return positions of the callers of the running function
    rdr,        \* the ByteReader: sourceSlice (nil or bytes) and bytes.Reader index
    call,       \* SpecCursor: the last cursor method called, with the reader before it
    ret,        \* SpecCursor: what that call returned
    h,          \* SpecHeader: the DnsHeader handed to GetBytes
    wire,       \* bytes produced by DnsHeader.GetBytes / DnsQuery.GetBytes
    dnsHeader,  \* the DnsHeader filled by parseResponse
    domainName, \* SpecName: the argument of getDomainNameInQnameFormat / generateDnsQuery
    qname,      \* SpecName: the result of getDomainNameInQnameFormat
    query,      \* SpecName: the DnsQuery built by generateDnsQuery
    tc,         \* SpecDecode: the response under decode, as it was composed
    answers,    \* dnsResponse.Answers
    loc,        \* locals of parseResponse, parseAnswersFromResponse, readDomainFromResponse
    hist        \* history: cursor calls made, and what happened after the first failed one

vars == <<pc, stack, rdr, call, ret, h, wire, dnsHeader, domainName, qname, query,
          tc, answers, loc, hist>>

-----------------------------------------------------------------------------
\* Fixed-width integer arithmetic of Go

Pow2(k) == 2 ^ k

\* x & y on non-negative integers
RECURSIVE BitAnd(_, _)
BitAnd(x, y) ==
    IF x = 0 \/ y = 0 THEN 0
    ELSE (x % 2) * (y % 2) + 2 * BitAnd(x \div 2, y \div 2)

\* uint16 x << k, x >> k, x + y
Shl16(x, k) == (x * Pow2(k)) % 65536
Shr16(x, k) == x \div Pow2(k)
Add16(x, y) == (x + y) % 65536

\* bit k of a 16-bit word (0 or 1)
BitOf(w, k) == (w \div Pow2(k)) % 2

\* utils.ConvertUint16ToBytesArray: binary.BigEndian.PutUint16
ConvertUint16ToBytesArray(number) == <<number \div 256, number % 256>>

\* binary.BigEndian.Uint16
BigEndianUint16(b) == b[1] * 256 + b[2]

\* A uint32 is kept as its two 16-bit halves, hi * 65536 + lo: the model checker's
\* integers are 32-bit signed and cannot hold the upper half of the uint32 range.
Uint32Zero == [hi |-> 0, lo |-> 0]

\* binary.BigEndian.Uint32
BigEndianUint32(b) == [hi |-> b[1] * 256 + b[2], lo |-> b[3] * 256 + b[4]]

-----------------------------------------------------------------------------
\* internal/pkg/bytereader: ByteReader over bytes.Reader
\* A reader is [nil |-> sourceSlice == nil, s |-> the bytes, i |-> bytes.Reader's index].
\* A result is [r |-> the reader afterwards, val |-> value, err |-> error returned].

SeekStart == 0
SeekCurrent == 1
SeekEnd == 2

NewByteReader(source, isNil) == [nil |-> isNil, s |-> source, i |-> 0]

\* bytes.Reader.Len: the unread bytes; 0 once the index is at or past the end
ReaderLen(r) == IF r.i >= Len(r.s) THEN 0 ELSE Len(r.s) - r.i

\* bytes.Reader.Size
ReaderSize(r) == Len(r.s)

GetAvailableBytes(r) == ReaderLen(r)

GetCurrentPosition(r) == ReaderSize(r) - ReaderLen(r)

\* bytes.Reader.Read into a slice of n bytes: at the end nothing moves (io.EOF),
\* otherwise min(n, unread) bytes are copied and the index advances by as many
ReaderRead(r, n) ==
    IF r.i >= Len(r.s) THEN [r |-> r, val |-> [k \in 1..n |-> 0]]
    ELSE LET m == IF n < Len(r.s) - r.i THEN n ELSE Len(r.s) - r.i
         IN  [r   |-> [r EXCEPT !.i = r.i + m],
              val |-> [k \in 1..n |-> IF k <= m THEN r.s[r.i + k] ELSE 0]]

\* ReadBytes refusing a read of exactly the remaining bytes (>= for >)
ReadBytesRefusesLast(r, numberOfBytesToRead) ==
    IF r.nil THEN [r |-> r, val |-> <<>>, err |-> TRUE]
    ELSE IF numberOfBytesToRead >= ReaderLen(r) THEN [r |-> r, val |-> <<>>, err |-> TRUE]
    ELSE LET rd == ReaderRead(r, numberOfBytesToRead)
         IN  [r |-> rd.r, val |-> rd.val, err |-> FALSE]

ReadBytes(r, numberOfBytesToRead) ==
    IF r.nil THEN [r |-> r, val |-> <<>>, err |-> TRUE]
    ELSE IF numberOfBytesToRead > ReaderLen(r) THEN [r |-> r, val |-> <<>>, err |-> TRUE]
    ELSE LET rd == ReaderRead(r, numberOfBytesToRead)
         IN  [r |-> rd.r, val |-> rd.val, err |-> FALSE]

\* ReadSingleByte returning the byte 255, not 0, with its error
ReadSingleByteSentinel(r) ==
    LET res == ReadBytes(r, 1)
    IN  IF res.err THEN [r |-> res.r, val |-> 255, err |-> TRUE]
        ELSE [r |-> res.r, val |-> res.val[1], err |-> FALSE]

ReadSingleByte(r) ==
    LET res == ReadBytes(r, 1)
    IN  IF res.err THEN [r |-> res.r, val |-> 0, err |-> TRUE]
        ELSE [r |-> res.r, val |-> res.val[1], err |-> FALSE]

ReadUint16(r) ==
    LET res == ReadBytes(r, 2)
    IN  IF res.err THEN [r |-> res.r, val |-> 0, err |-> TRUE]
        ELSE [r |-> res.r, val |-> BigEndianUint16(res.val), err |-> FALSE]

ReadUint32(r) ==
    LET res == ReadBytes(r, 4)
    IN  IF res.err THEN [r |-> res.r, val |-> Uint32Zero, err |-> TRUE]
        ELSE [r |-> res.r, val |-> BigEndianUint32(res.val), err |-> FALSE]

\* bytes.Reader.Seek: only an unknown whence or a negative position is refused;
\* a position past the end is stored as it is
SeekPosition(r, offset, whence) ==
    IF whence \notin {SeekStart, SeekCurrent, SeekEnd} THEN [r |-> r, err |-> TRUE]
    ELSE LET abs == CASE whence = SeekStart   -> offset
                      [] whence = SeekCurrent -> r.i + offset
                      [] whence = SeekEnd     -> Len(r.s) + offset
         IN  IF abs < 0 THEN [r |-> r, err |-> TRUE]
             ELSE [r |-> [r EXCEPT !.i = abs], err |-> FALSE]

-----------------------------------------------------------------------------
\* dnsresolvr.go: constants and the encoders

StandardQuery == 0
InverseQuery == 1
StatusQuery == 2

\* MessageType A and MessageClass IN (IN is a reserved word of TLA+)
MessageTypeA == 1
MessageClassIN == 1

\* the zero value of DnsHeader
ZeroHeader ==
    [Id |-> 0, IsResponse |-> FALSE, Opcode |-> StandardQuery,
     IsAuthoritativeAnswer |-> FALSE, IsTruncatedMessage |-> FALSE,
     IsRecursionDesired |-> FALSE, IsRecursionSupportAvailable |-> FALSE,
     ResponseCode |-> 0, QuestionCount |-> 0, AnswerCount |-> 0,
     NameServerRecordsCount |-> 0, AdditionalRecordsCount |-> 0]

\* the 16-bit word getHeaderMetadata accumulates before it is converted to bytes
headerMetaWord(hd) ==
    LET m0 == 0
        m1 == IF hd.IsResponse THEN Add16(m0, Shl16(1, 15)) ELSE m0
        m2 == Add16(m1, Shl16(hd.Opcode, 14))
        m3 == IF hd.IsAuthoritativeAnswer THEN Add16(m2, Shl16(1, 10)) ELSE m2
        m4 == IF hd.IsTruncatedMessage THEN Add16(m3, Shl16(1, 9)) ELSE m3
        m5 == IF hd.IsRecursionDesired THEN Add16(m4, Shl16(1, 8)) ELSE m4
        m6 == IF hd.IsRecursionSupportAvailable THEN Add16(m5, Shl16(1, 7)) ELSE m5
    IN  Add16(m6, hd.ResponseCode)

getHeaderMetadata(hd) == ConvertUint16ToBytesArray(headerMetaWord(hd))

DnsHeaderGetBytes(hd) ==
    ConvertUint16ToBytesArray(hd.Id)
        \o getHeaderMetadata(hd)
        \o ConvertUint16ToBytesArray(hd.QuestionCount)
        \o ConvertUint16ToBytesArray(hd.AnswerCount)
        \o ConvertUint16ToBytesArray(hd.NameServerRecordsCount)
        \o ConvertUint16ToBytesArray(hd.AdditionalRecordsCount)

populateDnsHeaderWithMetadata(headerMeta, hd) ==
    [hd EXCEPT
        !.IsResponse = (BitAnd(headerMeta, 32768) = 32768),
        !.Opcode = BitAnd(Shr16(headerMeta, 11), 15),
        !.IsAuthoritativeAnswer = (BitAnd(headerMeta, 1024) = 1024),
        !.IsTruncatedMessage = (BitAnd(headerMeta, 512) = 512),
        !.IsRecursionDesired = (BitAnd(headerMeta, 256) = 256),
        !.IsRecursionSupportAvailable = (BitAnd(headerMeta, 128) = 128),
        !.ResponseCode = BitAnd(headerMeta, 15)]

\* the byte '.'
Dot == 46

\* strings.Split(s, "."): the pieces between the dots, empty pieces included;
\* a string without a dot (the empty string too) is one piece
RECURSIVE SplitOnDot(_)
SplitOnDot(s) ==
    IF \E k \in 1..Len(s) : s[k] = Dot
    THEN LET k == CHOOSE k \in 1..Len(s) : s[k] = Dot /\ \A m \in 1..(k - 1) : s[m] # Dot
         IN  <<SubSeq(s, 1, k - 1)>> \o SplitOnDot(SubSeq(s, k + 1, Len(s)))
    ELSE <<s>>

\* the loop of getDomainNameInQnameFormat over nameParts[from..]
RECURSIVE QnameOfParts(_, _)
QnameOfParts(nameParts, from) ==
    IF from > Len(nameParts) THEN <<>>
    ELSE <<Len(nameParts[from]) % 256>> \o nameParts[from]
            \o QnameOfParts(nameParts, from + 1)

\* getDomainNameInQnameFormat without the terminating zero byte
getDomainNameUnterminated(name) == QnameOfParts(SplitOnDot(name), 1)

getDomainNameInQnameFormat(name) ==
    QnameOfParts(SplitOnDot(name), 1) \o <<0>>

DnsQueryQuestionGetBytes(q) ==
    q.Qname \o ConvertUint16ToBytesArray(q.Qtype) \o ConvertUint16ToBytesArray(q.Qclass)

\* the loop of DnsQuery.GetBytes over q.Questions[from..]
RECURSIVE QuestionsBytes(_, _)
QuestionsBytes(questions, from) ==
    IF from > Len(questions) THEN <<>>
    ELSE DnsQueryQuestionGetBytes(questions[from]) \o QuestionsBytes(questions, from + 1)

DnsQueryGetBytes(q) == DnsHeaderGetBytes(q.Header) \o QuestionsBytes(q.Questions, 1)

\* generateDnsQuery asking for recursion
generateDnsQueryRecursive(name, id) ==
    [Header |-> [ZeroHeader EXCEPT !.Id = id, !.QuestionCount = 1,
                                   !.IsRecursionDesired = TRUE],
     Questions |-> <<[Qname |-> getDomainNameInQnameFormat(name),
                      Qclass |-> MessageClassIN, Qtype |-> MessageTypeA]>>]

\* generateDnsQuery, given the value utils.GetRandomUint16 returned
generateDnsQuery(name, id) ==
    LET queryHeader == [ZeroHeader EXCEPT !.Id = id, !.Opcode = StandardQuery,
                                          !.QuestionCount = 1,
                                          !.IsRecursionDesired = FALSE]
        queryQuestion == [Qname |-> getDomainNameInQnameFormat(name),
                          Qclass |-> MessageClassIN, Qtype |-> MessageTypeA]
    IN  [Header |-> queryHeader, Questions |-> <<queryQuestion>>]

\* readDomainFromResponse with the separator written before the first label too
WriteDomainPartAlwaysDotted(domain, domainPart) == Append(domain, Dot) \o domainPart

\* dnsresolvr.go:275-279  domain.WriteRune('.') unless the builder is empty, then
\* domain.Write(domainPart)
WriteDomainPart(domain, domainPart) ==
    (IF Len(domain) # 0 THEN Append(domain, Dot) ELSE domain) \o domainPart

\* dnsresolvr.go:301  offset := int(o)&63 + int(o2)   (& binds tighter than +)
PointerOffset(o, o2) == BitAnd(o, 63) + o2

\* readIpAddressFromResponse indexes addressInBytes[0..3]: it panics on a shorter
\* slice, and otherwise renders the first four bytes (kept here as the four numbers)
readIpAddressPanics(addressInBytes) == Len(addressInBytes) < 4

\* strconv.Itoa of a byte value: its decimal digits as ASCII
RECURSIVE Itoa(_)
Itoa(n) == IF n < 10 THEN <<48 + n>> ELSE Itoa(n \div 10) \o <<48 + (n % 10)>>

readIpAddressFromResponse(addressInBytes) ==
    Itoa(addressInBytes[1]) \o <<Dot>> \o Itoa(addressInBytes[2]) \o <<Dot>>
        \o Itoa(addressInBytes[3]) \o <<Dot>> \o Itoa(addressInBytes[4])

-----------------------------------------------------------------------------
\* Values of the variables a specification does not use

NoAnswer ==
    [Domain |-> <<>>, RecordClass |-> 0, RecordType |-> 0, TTL |-> Uint32Zero,
     Address |-> <<>>]

NoLoc ==
    [i |-> 0, j |-> 0, o |-> 0, o2 |-> 0, compressed |-> FALSE, offset |-> 0,
     originalReaderPosition |-> 0, domainFromResponse |-> <<>>,
     rt |-> 0, rc |-> 0, ttl |-> Uint32Zero, dataLength |-> 0, rdata |-> <<>>,
     domain |-> <<>>, domainPartLength |-> 0, retDomain |-> <<>>,
     ans |-> NoAnswer]

NoHist ==
    [calls |-> 0, failed |-> FALSE, callsAfterFailure |-> 0,
     answersAfterFailure |-> 0, records |-> 0, recordStart |-> 0]

NoCall == [op |-> "NewByteReader", n |-> 0, offset |-> 0, whence |-> 0,
           before |-> NewByteReader(<<>>, TRUE)]

NoRet == [val |-> <<>>, err |-> FALSE]

NoQuery == [Header |-> ZeroHeader, Questions |-> <<>>]

NoTc == [questions |-> <<>>, answerCount |-> 0, records |-> <<>>, full |-> <<>>]

\* all sequences over S of length 0..n
RECURSIVE SeqsUpTo(_, _)
SeqsUpTo(S, n) ==
    IF n = 0 THEN {<<>>}
    ELSE LET shorter == SeqsUpTo(S, n - 1)
         IN  shorter \cup {Append(q, x) : q \in {t \in shorter : Len(t) = n - 1}, x \in S}

-----------------------------------------------------------------------------
\* SpecCursor: a ByteReader over a small buffer, its methods called in any order

\* longest buffer, and the two byte values the buffers are made of
MaxBufLen == 4
CursorBytes == {1, 254}

\* the nil slice and every buffer of up to MaxBufLen bytes
CursorReaders ==
    {NewByteReader(<<>>, TRUE)} \cup {NewByteReader(b, FALSE) : b \in SeqsUpTo(CursorBytes, MaxBufLen)}

\* the byte counts asked of ReadBytes, and the offsets and whence values given to
\* SeekPosition (3 is no whence of package io)
ReadCounts == 0..(MaxBufLen + 1)
SeekOffsets == (0 - (MaxBufLen + 2))..(MaxBufLen + 2)
SeekWhences == {SeekStart, SeekCurrent, SeekEnd, 3}

InitCursor ==
    /\ rdr \in CursorReaders
    /\ call = [NoCall EXCEPT !.before = rdr]
    /\ ret = NoRet
    /\ pc = "idle" /\ stack = <<>>
    /\ h = ZeroHeader /\ wire = <<>> /\ dnsHeader = ZeroHeader
    /\ domainName = <<>> /\ qname = <<>> /\ query = NoQuery
    /\ tc = NoTc /\ answers = <<>> /\ loc = NoLoc /\ hist = NoHist

CursorFrame ==
    UNCHANGED <<pc, stack, h, wire, dnsHeader, domainName, qname, query, tc,
                answers, loc, hist>>

CallReadBytes ==
    \E n \in ReadCounts :
        LET res == ReadBytes(rdr, n)
        IN  /\ call' = [op |-> "ReadBytes", n |-> n, offset |-> 0, whence |-> 0,
                        before |-> rdr]
            /\ rdr' = res.r
            /\ ret' = [val |-> res.val, err |-> res.err]
            /\ CursorFrame

CallReadSingleByte ==
    LET res == ReadSingleByte(rdr)
    IN  /\ call' = [op |-> "ReadSingleByte", n |-> 1, offset |-> 0, whence |-> 0,
                    before |-> rdr]
        /\ rdr' = res.r
        /\ ret' = [val |-> res.val, err |-> res.err]
        /\ CursorFrame

CallReadUint16 ==
    LET res == ReadUint16(rdr)
    IN  /\ call' = [op |-> "ReadUint16", n |-> 2, offset |-> 0, whence |-> 0,
                    before |-> rdr]
        /\ rdr' = res.r
        /\ ret' = [val |-> res.val, err |-> res.err]
        /\ CursorFrame

CallReadUint32 ==
    LET res == ReadUint32(rdr)
    IN  /\ call' = [op |-> "ReadUint32", n |-> 4, offset |-> 0, whence |-> 0,
                    before |-> rdr]
        /\ rdr' = res.r
        /\ ret' = [val |-> res.val, err |-> res.err]
        /\ CursorFrame

\* the index is kept within MaxBufLen + 2 so that the state space is finite
CallSeekPosition ==
    \E offset \in SeekOffsets, whence \in SeekWhences :
        LET res == SeekPosition(rdr, offset, whence)
        IN  /\ res.r.i <= MaxBufLen + 2
            /\ call' = [op |-> "SeekPosition", n |-> 0, offset |-> offset,
                        whence |-> whence, before |-> rdr]
            /\ rdr' = res.r
            /\ ret' = [val |-> <<>>, err |-> res.err]
            /\ CursorFrame

NextCursor ==
    \/ CallReadBytes
    \/ CallReadSingleByte
    \/ CallReadUint16
    \/ CallReadUint32
    \/ CallSeekPosition

SpecCursor == InitCursor /\ [][NextCursor]_vars

-----------------------------------------------------------------------------
\* parseResponse, parseAnswersFromResponse and readDomainFromResponse, one step per
\* cursor call. pc names the statement to run next; stack holds the statements the
\* callers resume at; "done" is the return of the outermost function and "panic"
\* the run-time panic of an index out of range.

\* the history after a cursor call that returned err
Called(hs, err) ==
    [hs EXCEPT !.calls = @ + 1,
               !.callsAfterFailure = IF hs.failed THEN @ + 1 ELSE @,
               !.failed = @ \/ err]

\* where a return goes, and the stack after it
ReturnTo(st) == IF st = <<>> THEN "done" ELSE Head(st)
Popped(st) == IF st = <<>> THEN <<>> ELSE Tail(st)

\* what no step of the decoder changes
DecodeFrame == UNCHANGED <<call, ret, h, wire, domainName, qname, query, tc>>

\* dnsresolvr.go:242-246  responseId, err := ReadUint16(); dnsHeader.Id = responseId
PR_ReadId ==
    /\ pc = "PR_ReadId"
    /\ LET res == ReadUint16(rdr)
       IN  /\ rdr' = res.r
           /\ dnsHeader' = [dnsHeader EXCEPT !.Id = res.val]
           /\ hist' = Called(hist, res.err)
    /\ pc' = "PR_ReadMeta"
    /\ UNCHANGED <<stack, answers, loc>>
    /\ DecodeFrame

\* dnsresolvr.go:247-248  headerMeta, _ := ReadUint16(); populateDnsHeaderWithMetadata
PR_ReadMeta ==
    /\ pc = "PR_ReadMeta"
    /\ LET res == ReadUint16(rdr)
       IN  /\ rdr' = res.r
           /\ dnsHeader' = populateDnsHeaderWithMetadata(res.val, dnsHeader)
           /\ hist' = Called(hist, res.err)
    /\ pc' = "PR_ReadQuestionCount"
    /\ UNCHANGED <<stack, answers, loc>>
    /\ DecodeFrame

\* dnsresolvr.go:249
PR_ReadQuestionCount ==
    /\ pc = "PR_ReadQuestionCount"
    /\ LET res == ReadUint16(rdr)
       IN  /\ rdr' = res.r
           /\ dnsHeader' = [dnsHeader EXCEPT !.QuestionCount = res.val]
           /\ hist' = Called(hist, res.err)
    /\ pc' = "PR_ReadAnswerCount"
    /\ UNCHANGED <<stack, answers, loc>>
    /\ DecodeFrame

\* dnsresolvr.go:250-251
PR_ReadAnswerCount ==
    /\ pc = "PR_ReadAnswerCount"
    /\ LET res == ReadUint16(rdr)
       IN  /\ rdr' = res.r
           /\ dnsHeader' = [dnsHeader EXCEPT !.AnswerCount = res.val]
           /\ hist' = Called(hist, res.err)
    /\ pc' = "PR_ReadNameServerRecordsCount"
    /\ UNCHANGED <<stack, answers, loc>>
    /\ DecodeFrame

\* dnsresolvr.go:252-253
PR_ReadNameServerRecordsCount ==
    /\ pc = "PR_ReadNameServerRecordsCount"
    /\ LET res == ReadUint16(rdr)
       IN  /\ rdr' = res.r
           /\ dnsHeader' = [dnsHeader EXCEPT !.NameServerRecordsCount = res.val]
           /\ hist' = Called(hist, res.err)
    /\ pc' = "PR_ReadAdditionalRecordsCount"
    /\ UNCHANGED <<stack, answers, loc>>
    /\ DecodeFrame

\* dnsresolvr.go:254
PR_ReadAdditionalRecordsCount ==
    /\ pc = "PR_ReadAdditionalRecordsCount"
    /\ LET res == ReadUint16(rdr)
       IN  /\ rdr' = res.r
           /\ dnsHeader' = [dnsHeader EXCEPT !.AdditionalRecordsCount = res.val]
           /\ hist' = Called(hist, res.err)
    /\ pc' = "PR_ReadQuestionName"
    /\ UNCHANGED <<stack, answers, loc>>
    /\ DecodeFrame

\* dnsresolvr.go:255  _ = readDomainFromResponse(responseReader): the call
\* (268: the callee starts with an empty strings.Builder)
PR_ReadQuestionName ==
    /\ pc = "PR_ReadQuestionName"
    /\ pc' = "RD_ReadLength"
    /\ stack' = <<"PR_ReadQtype">> \o stack
    /\ loc' = [loc EXCEPT !.domain = <<>>]
    /\ UNCHANGED <<rdr, dnsHeader, answers, hist>>
    /\ DecodeFrame

\* dnsresolvr.go:256  _, _ = ReadUint16()
PR_ReadQtype ==
    /\ pc = "PR_ReadQtype"
    /\ LET res == ReadUint16(rdr)
       IN  /\ rdr' = res.r
           /\ hist' = Called(hist, res.err)
    /\ pc' = "PR_ReadQclass"
    /\ UNCHANGED <<stack, dnsHeader, answers, loc>>
    /\ DecodeFrame

\* dnsresolvr.go:257  _, _ = ReadUint16(); 258: i := 0
PR_ReadQclass ==
    /\ pc = "PR_ReadQclass"
    /\ LET res == ReadUint16(rdr)
       IN  /\ rdr' = res.r
           /\ hist' = Called(hist, res.err)
    /\ pc' = "PR_AnswerLoop"
    /\ loc' = [loc EXCEPT !.i = 0]
    /\ UNCHANGED <<stack, dnsHeader, answers>>
    /\ DecodeFrame

\* dnsresolvr.go:258-259  for uint16(i) < AnswerCount: call parseAnswersFromResponse;
\* after the loop, 262: j := 0
PR_AnswerLoop ==
    /\ pc = "PR_AnswerLoop"
    /\ IF loc.i % 65536 < dnsHeader.AnswerCount
       THEN /\ pc' = "PA_ReadFirst"
            /\ stack' = <<"PR_AppendAnswer">> \o stack
            /\ loc' = loc
       ELSE /\ pc' = "PR_NameServerLoop"
            /\ stack' = stack
            /\ loc' = [loc EXCEPT !.j = 0]
    /\ UNCHANGED <<rdr, dnsHeader, answers, hist>>
    /\ DecodeFrame

\* dnsresolvr.go:260  dnsResponse.Answers = append(dnsResponse.Answers, *ans); i++
PR_AppendAnswer ==
    /\ pc = "PR_AppendAnswer"
    /\ answers' = Append(answers, loc.ans)
    /\ loc' = [loc EXCEPT !.i = @ + 1]
    /\ hist' = [hist EXCEPT !.answersAfterFailure = IF hist.failed THEN @ + 1 ELSE @]
    /\ pc' = "PR_AnswerLoop"
    /\ UNCHANGED <<stack, rdr, dnsHeader>>
    /\ DecodeFrame

\* dnsresolvr.go:262-263  for uint16(j) < NameServerRecordsCount: call
\* parseAnswersFromResponse; after the loop parseResponse returns
PR_NameServerLoop ==
    /\ pc = "PR_NameServerLoop"
    /\ IF loc.j % 65536 < dnsHeader.NameServerRecordsCount
       THEN /\ pc' = "PA_ReadFirst"
            /\ stack' = <<"PR_NameServerNext">> \o stack
       ELSE /\ pc' = ReturnTo(stack)
            /\ stack' = Popped(stack)
    /\ UNCHANGED <<rdr, dnsHeader, answers, loc, hist>>
    /\ DecodeFrame

\* dnsresolvr.go:262  the record is dropped; j++
PR_NameServerNext ==
    /\ pc = "PR_NameServerNext"
    /\ loc' = [loc EXCEPT !.j = @ + 1]
    /\ pc' = "PR_NameServerLoop"
    /\ UNCHANGED <<stack, rdr, dnsHeader, answers, hist>>
    /\ DecodeFrame

\* dnsresolvr.go:296-299, 305  o, _ := ReadSingleByte(); is the name compressed?
\* if it is not, readDomainFromResponse is called from where the cursor now stands
PA_ReadFirst ==
    /\ pc = "PA_ReadFirst"
    /\ LET res == ReadSingleByte(rdr)
           compressed == (BitAnd(res.val, 192) = 192)
       IN  /\ rdr' = res.r
           /\ hist' = [Called(hist, res.err) EXCEPT
                          !.records = @ + 1,
                          !.recordStart = GetCurrentPosition(rdr)]
           /\ loc' = [loc EXCEPT !.o = res.val, !.compressed = compressed,
                                 !.originalReaderPosition = 0, !.domain = <<>>]
           /\ IF compressed
              THEN pc' = "PA_ReadSecond" /\ stack' = stack
              ELSE pc' = "RD_ReadLength" /\ stack' = <<"PA_AfterName">> \o stack
    /\ UNCHANGED <<dnsHeader, answers>>
    /\ DecodeFrame

\* dnsresolvr.go:300-302  o2, _ := ReadSingleByte(); offset := int(o)&63 + int(o2);
\* originalReaderPosition = GetCurrentPosition()
PA_ReadSecond ==
    /\ pc = "PA_ReadSecond"
    /\ LET res == ReadSingleByte(rdr)
       IN  /\ rdr' = res.r
           /\ hist' = Called(hist, res.err)
           /\ loc' = [loc EXCEPT !.o2 = res.val,
                                 !.offset = PointerOffset(loc.o, res.val),
                                 !.originalReaderPosition = GetCurrentPosition(res.r)]
    /\ pc' = "PA_SeekOffset"
    /\ UNCHANGED <<stack, dnsHeader, answers>>
    /\ DecodeFrame

\* dnsresolvr.go:303, 305  _ = SeekPosition(offset, io.SeekStart); then the call of
\* readDomainFromResponse
PA_SeekOffset ==
    /\ pc = "PA_SeekOffset"
    /\ LET res == SeekPosition(rdr, loc.offset, SeekStart)
       IN  /\ rdr' = res.r
           /\ hist' = Called(hist, res.err)
    /\ pc' = "RD_ReadLength"
    /\ stack' = <<"PA_AfterName">> \o stack
    /\ loc' = [loc EXCEPT !.domain = <<>>]
    /\ UNCHANGED <<dnsHeader, answers>>
    /\ DecodeFrame

\* dnsresolvr.go:305-308  domainFromResponse := (the callee's result); a compressed
\* name seeks back to originalReaderPosition
PA_AfterName ==
    /\ pc = "PA_AfterName"
    /\ IF loc.compressed
       THEN LET res == SeekPosition(rdr, loc.originalReaderPosition, SeekStart)
            IN  /\ rdr' = res.r
                /\ hist' = Called(hist, res.err)
       ELSE /\ rdr' = rdr
            /\ hist' = hist
    /\ loc' = [loc EXCEPT !.domainFromResponse = loc.retDomain]
    /\ pc' = "PA_ReadType"
    /\ UNCHANGED <<stack, dnsHeader, answers>>
    /\ DecodeFrame

\* dnsresolvr.go:309  rt, _ := ReadUint16()
PA_ReadType ==
    /\ pc = "PA_ReadType"
    /\ LET res == ReadUint16(rdr)
       IN  /\ rdr' = res.r
           /\ hist' = Called(hist, res.err)
           /\ loc' = [loc EXCEPT !.rt = res.val]
    /\ pc' = "PA_ReadClass"
    /\ UNCHANGED <<stack, dnsHeader, answers>>
    /\ DecodeFrame

\* dnsresolvr.go:310  rc, _ := ReadUint16()
PA_ReadClass ==
    /\ pc = "PA_ReadClass"
    /\ LET res == ReadUint16(rdr)
       IN  /\ rdr' = res.r
           /\ hist' = Called(hist, res.err)
           /\ loc' = [loc EXCEPT !.rc = res.val]
    /\ pc' = "PA_ReadTTL"
    /\ UNCHANGED <<stack, dnsHeader, answers>>
    /\ DecodeFrame

\* dnsresolvr.go:311  ttl, _ := ReadUint32()
PA_ReadTTL ==
    /\ pc = "PA_ReadTTL"
    /\ LET res == ReadUint32(rdr)
       IN  /\ rdr' = res.r
           /\ hist' = Called(hist, res.err)
           /\ loc' = [loc EXCEPT !.ttl = res.val]
    /\ pc' = "PA_ReadDataLength"
    /\ UNCHANGED <<stack, dnsHeader, answers>>
    /\ DecodeFrame

\* dnsresolvr.go:312  dataLength, _ := ReadUint16()
PA_ReadDataLength ==
    /\ pc = "PA_ReadDataLength"
    /\ LET res == ReadUint16(rdr)
       IN  /\ rdr' = res.r
           /\ hist' = Called(hist, res.err)
           /\ loc' = [loc EXCEPT !.dataLength = res.val]
    /\ pc' = "PA_ReadRdata"
    /\ UNCHANGED <<stack, dnsHeader, answers>>
    /\ DecodeFrame

\* dnsresolvr.go:313  rdata, _ := ReadBytes(int(dataLength))
PA_ReadRdata ==
    /\ pc = "PA_ReadRdata"
    /\ LET res == ReadBytes(rdr, loc.dataLength)
       IN  /\ rdr' = res.r
           /\ hist' = Called(hist, res.err)
           /\ loc' = [loc EXCEPT !.rdata = res.val]
    /\ pc' = "PA_BuildAnswer"
    /\ UNCHANGED <<stack, dnsHeader, answers>>
    /\ DecodeFrame

\* dnsresolvr.go:314-322  ipAddress := readIpAddressFromResponse(rdata), which
\* panics on fewer than four bytes; otherwise the answer is built and returned
PA_BuildAnswer ==
    /\ pc = "PA_BuildAnswer"
    /\ IF readIpAddressPanics(loc.rdata)
       THEN /\ pc' = "panic"
            /\ UNCHANGED <<stack, loc>>
       ELSE /\ loc' = [loc EXCEPT !.ans =
                          [Domain |-> loc.domainFromResponse,
                           RecordClass |-> loc.rc,
                           RecordType |-> loc.rt,
                           TTL |-> loc.ttl,
                           Address |-> readIpAddressFromResponse(loc.rdata)]]
            /\ pc' = ReturnTo(stack)
            /\ stack' = Popped(stack)
    /\ UNCHANGED <<rdr, dnsHeader, answers, hist>>
    /\ DecodeFrame

\* dnsresolvr.go:270-274, 281  l, _ := ReadSingleByte(); a zero length (a failed read
\* gives zero too) ends the loop and the function returns domain.String()
RD_ReadLength ==
    /\ pc = "RD_ReadLength"
    /\ LET res == ReadSingleByte(rdr)
       IN  /\ rdr' = res.r
           /\ hist' = Called(hist, res.err)
           /\ IF res.val = 0
              THEN /\ loc' = [loc EXCEPT !.domainPartLength = 0, !.retDomain = loc.domain]
                   /\ pc' = ReturnTo(stack)
                   /\ stack' = Popped(stack)
              ELSE /\ loc' = [loc EXCEPT !.domainPartLength = res.val]
                   /\ pc' = "RD_ReadPart"
                   /\ stack' = stack
    /\ UNCHANGED <<dnsHeader, answers>>
    /\ DecodeFrame

\* dnsresolvr.go:275-279  a '.' unless the builder is empty; domainPart, _ :=
\* ReadBytes(domainPartLength); domain.Write(domainPart)
RD_ReadPart ==
    /\ pc = "RD_ReadPart"
    /\ LET res == ReadBytes(rdr, loc.domainPartLength)
       IN  /\ rdr' = res.r
           /\ hist' = Called(hist, res.err)
           /\ loc' = [loc EXCEPT !.domain = WriteDomainPart(loc.domain, res.val)]
    /\ pc' = "RD_ReadLength"
    /\ UNCHANGED <<stack, dnsHeader, answers>>
    /\ DecodeFrame

-----------------------------------------------------------------------------
\* SpecHeader: a header is serialised by GetBytes and the twelve bytes are read
\* back by the header statements of parseResponse (dnsresolvr.go:242-254)

Opcodes == {StandardQuery, InverseQuery, StatusQuery}
ResponseCodes == 0..5
HeaderIds == {0, 4660, 65535}
HeaderCounts == {258, 65535}

Headers ==
    [Id : HeaderIds, IsResponse : BOOLEAN, Opcode : Opcodes,
     IsAuthoritativeAnswer : BOOLEAN, IsTruncatedMessage : BOOLEAN,
     IsRecursionDesired : BOOLEAN, IsRecursionSupportAvailable : BOOLEAN,
     ResponseCode : ResponseCodes, QuestionCount : HeaderCounts,
     AnswerCount : HeaderCounts, NameServerRecordsCount : HeaderCounts,
     AdditionalRecordsCount : HeaderCounts]

InitHeader ==
    /\ h \in Headers
    /\ pc = "HeaderGetBytes" /\ stack = <<>>
    /\ wire = <<>> /\ dnsHeader = ZeroHeader
    /\ rdr = NewByteReader(<<>>, TRUE)
    /\ call = NoCall /\ ret = NoRet
    /\ domainName = <<>> /\ qname = <<>> /\ query = NoQuery
    /\ tc = NoTc /\ answers = <<>> /\ loc = NoLoc /\ hist = NoHist

\* dnsresolvr.go:98-108  h.GetBytes(); the bytes are then wrapped in a ByteReader
\* (236-241) with a fresh DnsHeader to fill
HeaderGetBytes ==
    /\ pc = "HeaderGetBytes"
    /\ wire' = DnsHeaderGetBytes(h)
    /\ rdr' = NewByteReader(wire', FALSE)
    /\ dnsHeader' = ZeroHeader
    /\ pc' = "PR_ReadId"
    /\ UNCHANGED <<stack, call, ret, h, domainName, qname, query, tc, answers, loc, hist>>

NextHeader ==
    \/ HeaderGetBytes
    \/ PR_ReadId
    \/ PR_ReadMeta
    \/ PR_ReadQuestionCount
    \/ PR_ReadAnswerCount
    \/ PR_ReadNameServerRecordsCount
    \/ PR_ReadAdditionalRecordsCount

SpecHeader == InitHeader /\ [][NextHeader]_vars

\* the header has been serialised and all twelve bytes read back
HeaderDecoded == wire # <<>> /\ pc = "PR_ReadQuestionName" /\ domainName = <<>> /\ tc = NoTc

\* C1: decoding the twelve bytes of h.GetBytes() yields a header equal to h field
\* by field, for every flag combination, opcode 0..2, response code 0..5 and counts.
C1_HeaderRoundTrip == HeaderDecoded => dnsHeader = h

BoolBit(b) == IF b THEN 1 ELSE 0

\* the flags word GetBytes wrote: bytes 2 and 3 of the header
FlagsWord == wire[3] * 256 + wire[4]

\* C2: in the flags word written for h, bit 15 is the response flag, bits 14..11 the
\* opcode, bit 10 authoritative-answer, bit 9 truncated, bit 8 recursion-desired,
\* bit 7 recursion-available, bits 6..4 zero and bits 3..0 the response code.
C2_FlagsLayout ==
    (wire # <<>> /\ tc = NoTc /\ domainName = <<>>) =>
        /\ BitOf(FlagsWord, 15) = BoolBit(h.IsResponse)
        /\ (FlagsWord \div 2048) % 16 = h.Opcode
        /\ BitOf(FlagsWord, 10) = BoolBit(h.IsAuthoritativeAnswer)
        /\ BitOf(FlagsWord, 9) = BoolBit(h.IsTruncatedMessage)
        /\ BitOf(FlagsWord, 8) = BoolBit(h.IsRecursionDesired)
        /\ BitOf(FlagsWord, 7) = BoolBit(h.IsRecursionSupportAvailable)
        /\ (FlagsWord \div 16) % 8 = 0
        /\ FlagsWord % 16 = h.ResponseCode

-----------------------------------------------------------------------------
\* SpecName: a domain name is encoded by getDomainNameInQnameFormat; then either a
\* query is generated for it and serialised, or the encoded name is read back by
\* readDomainFromResponse from a cursor at its start

\* longest name drawn from the alphabet 'a', 'b', '.'
MaxNameLen == 4
NameBytes == {97, 98, Dot}

\* "dns.google.com"
DnsGoogleCom == <<100, 110, 115, Dot, 103, 111, 111, 103, 108, 101, Dot, 99, 111, 109>>

\* a label of 63 bytes, the longest the wire format allows, followed by ".b"
LongLabelName == [k \in 1..63 |-> 97] \o <<Dot, 98>>

DomainNames == SeqsUpTo(NameBytes, MaxNameLen) \cup {DnsGoogleCom, LongLabelName}

\* utils.GetRandomUint16 returns rand.Int(rand.Reader, 65535): 0..65534
RandomIds == {0, 4660, 65534}

InitName ==
    /\ domainName \in DomainNames
    /\ pc = "getDomainNameInQnameFormat" /\ stack = <<>>
    /\ qname = <<>> /\ query = NoQuery /\ wire = <<>>
    /\ rdr = NewByteReader(<<>>, TRUE)
    /\ call = NoCall /\ ret = NoRet
    /\ h = ZeroHeader /\ dnsHeader = ZeroHeader
    /\ tc = NoTc /\ answers = <<>> /\ loc = NoLoc /\ hist = NoHist

NameFrame == UNCHANGED <<stack, call, ret, h, dnsHeader, domainName, tc, answers, hist>>

\* dnsresolvr.go:177-187
CallGetDomainNameInQnameFormat ==
    /\ pc = "getDomainNameInQnameFormat"
    /\ qname' = getDomainNameInQnameFormat(domainName)
    /\ pc' = "encoded"
    /\ UNCHANGED <<query, wire, rdr, loc>>
    /\ NameFrame

\* dnsresolvr.go:189-203
CallGenerateDnsQuery ==
    /\ pc = "encoded"
    /\ \E id \in RandomIds : query' = generateDnsQuery(domainName, id)
    /\ pc' = "generated"
    /\ UNCHANGED <<qname, wire, rdr, loc>>
    /\ NameFrame

\* dnsresolvr.go:151-159
CallQueryGetBytes ==
    /\ pc = "generated"
    /\ wire' = DnsQueryGetBytes(query)
    /\ pc' = "serialised"
    /\ UNCHANGED <<qname, query, rdr, loc>>
    /\ NameFrame

\* a cursor is put at the start of the encoded name and readDomainFromResponse
\* is called on it (dnsresolvr.go:267-268)
ReadEncodedName ==
    /\ pc = "encoded"
    /\ rdr' = NewByteReader(qname, FALSE)
    /\ loc' = [loc EXCEPT !.domain = <<>>]
    /\ pc' = "RD_ReadLength"
    /\ UNCHANGED <<qname, query, wire>>
    /\ NameFrame

NextName ==
    \/ CallGetDomainNameInQnameFormat
    \/ CallGenerateDnsQuery
    \/ CallQueryGetBytes
    \/ ReadEncodedName
    \/ RD_ReadLength
    \/ RD_ReadPart

SpecName == InitName /\ [][NextName]_vars

-----------------------------------------------------------------------------
\* Claims about names and queries (SpecName)

\* every label of the dotted name n is 1..63 bytes long
WellFormedName(n) ==
    /\ Len(n) > 0
    /\ n[1] # Dot /\ n[Len(n)] # Dot
    /\ \A k \in 1..(Len(n) - 1) : ~(n[k] = Dot /\ n[k + 1] = Dot)
    /\ \A k \in 1..Len(n) :
          (k + 63 <= Len(n)) => \E m \in k..(k + 63) : n[m] = Dot

\* the length of the label of n that starts at index k
LabelLengthAt(n, k) ==
    CHOOSE m \in 0..Len(n) :
        /\ \A x \in k..(k + m - 1) : x <= Len(n) /\ n[x] # Dot
        /\ (k + m > Len(n) \/ n[k + m] = Dot)

\* "dns.google.com" in wire form: 03646e7306676f6f676c6503636f6d00
DnsGoogleComQname ==
    <<3, 100, 110, 115, 6, 103, 111, 111, 103, 108, 101, 3, 99, 111, 109, 0>>

NameEncoded == pc # "getDomainNameInQnameFormat" /\ WellFormedName(domainName)

\* C3: for a name whose labels are 1..63 bytes long the encoding holds, for each
\* label in order, its length byte and its bytes, then one zero byte and nothing
\* else: each dot of the name is replaced by the length of the label after it, the
\* first label's length comes first, and a zero comes last; "dns.google.com"
\* encodes to the 16 bytes 03646e7306676f6f676c6503636f6d00.
C3_NameEncoding ==
    NameEncoded =>
        /\ Len(qname) = Len(domainName) + 2
        /\ qname[1] = LabelLengthAt(domainName, 1)
        /\ \A k \in 1..Len(domainName) :
              qname[k + 1] = IF domainName[k] = Dot
                             THEN LabelLengthAt(domainName, k + 1)
                             ELSE domainName[k]
        /\ qname[Len(qname)] = 0
        /\ (domainName = DnsGoogleCom => qname = DnsGoogleComQname)

\* C3 witness: "dns.google.com" has been encoded, to 16 bytes
C3_Witness ==
    pc = "encoded" /\ domainName = DnsGoogleCom /\ Len(qname) = 16 /\ qname[5] = 6

\* C4: the bytes of generateDnsQuery(d).GetBytes() after the two ID bytes are the
\* flags word 0000, QDCOUNT 0001, ANCOUNT, NSCOUNT, ARCOUNT 0000, the encoded name
\* of d, QTYPE 0001 and QCLASS 0001, whatever the ID; for "dns.google.com" they are
\* 0000000100000000000003646e7306676f6f676c6503636f6d0000010001.
C4_QueryBytes ==
    pc = "serialised" =>
        /\ SubSeq(wire, 3, Len(wire)) =
              <<0, 0, 0, 1, 0, 0, 0, 0, 0, 0>> \o qname \o <<0, 1, 0, 1>>
        /\ SubSeq(wire, 1, 2) = <<query.Header.Id \div 256, query.Header.Id % 256>>
        /\ (domainName = DnsGoogleCom =>
               SubSeq(wire, 3, Len(wire)) =
                  <<0, 0, 0, 1, 0, 0, 0, 0, 0, 0>> \o DnsGoogleComQname \o <<0, 1, 0, 1>>)

\* C4 witness: the query for "dns.google.com" with a non-zero ID has been
\* serialised to 2 + 10 + 16 + 4 bytes
C4_Witness ==
    /\ pc = "serialised" /\ domainName = DnsGoogleCom
    /\ query.Header.Id = 4660 /\ wire[1] = 18 /\ wire[2] = 52 /\ Len(wire) = 32

\* readDomainFromResponse has returned from its call on the encoded name
NameDecoded == pc = "done" /\ qname # <<>> /\ tc = NoTc

\* C5: read back from a cursor at the start of its encoding, a name whose labels are
\* 1..63 bytes long is returned as it was, and the cursor has advanced by the length
\* of the encoding (16 for "dns.google.com"); an encoding that starts with the zero
\* byte is returned as the empty string, the cursor advanced by 1.
C5_NameDecode ==
    NameDecoded =>
        /\ WellFormedName(domainName) =>
              /\ loc.retDomain = domainName
              /\ GetCurrentPosition(rdr) = Len(qname)
              /\ Len(qname) = Len(domainName) + 2
        /\ domainName = DnsGoogleCom => GetCurrentPosition(rdr) = 16
        /\ qname[1] = 0 => (loc.retDomain = <<>> /\ GetCurrentPosition(rdr) = 1)

\* C5 witness: "dns.google.com" has been read back, the cursor at 16
C5_Witness ==
    /\ pc = "done" /\ domainName = DnsGoogleCom
    /\ loc.retDomain = DnsGoogleCom /\ GetCurrentPosition(rdr) = 16

-----------------------------------------------------------------------------
\* SpecDecode: parseResponse on the bytes a name server may send. The responses are
\* composed here from a description (questions, answer records, authority records)
\* in the wire format of RFC 1035, and handed over whole, cut short at any byte,
\* or not at all (the nil slice parseResponse gets when the UDP read failed).

\* most answer records and most authority records of a composed response
MaxAnswers == 2
MaxAuthority == 1

\* the offset of the far name, past what one pointer byte can address
FarOffset == 256

\* record types other than A used in the composed records
TypeNS == 2
TypeTXT == 16

\* offset of the first question's name: the length of a serialised header
HeaderLength == Len(DnsHeaderGetBytes(ZeroHeader))

\* a compression pointer to offset p: the two top bits set, then 14 bits of offset
PointerBytes(p) == <<192 + (p \div 256), p % 256>>

\* the owner-name field of a record: a pointer, or the labels of its name
NameField(rec) ==
    IF rec.kind = "pointer" THEN PointerBytes(rec.target)
    ELSE getDomainNameInQnameFormat(rec.name)

\* a resource record on the wire: NAME TYPE CLASS TTL RDLENGTH RDATA
RecordBytes(rec) ==
    NameField(rec) \o ConvertUint16ToBytesArray(rec.rt)
        \o ConvertUint16ToBytesArray(rec.rc)
        \o ConvertUint16ToBytesArray(rec.ttl.hi) \o ConvertUint16ToBytesArray(rec.ttl.lo)
        \o ConvertUint16ToBytesArray(Len(rec.rdata)) \o rec.rdata

\* a record description; start and end are filled in when the record is placed
Record(kind, name, target, rt, ttl, rdata) ==
    [kind |-> kind, name |-> name, target |-> target, rt |-> rt,
     rc |-> MessageClassIN, ttl |-> ttl, rdata |-> rdata, start |-> 0, end |-> 0]

\* the records laid one after the other from offset pos
RECURSIVE PlaceRecords(_, _)
PlaceRecords(recs, pos) ==
    IF recs = <<>> THEN <<>>
    ELSE LET n == Len(RecordBytes(Head(recs)))
         IN  <<[Head(recs) EXCEPT !.start = pos, !.end = pos + n]>>
                \o PlaceRecords(Tail(recs), pos + n)

RECURSIVE AllRecordBytes(_)
AllRecordBytes(recs) ==
    IF recs = <<>> THEN <<>> ELSE RecordBytes(Head(recs)) \o AllRecordBytes(Tail(recs))

\* a response: header with the three counts, the questions, the records
Compose(questions, ans, ns) ==
    LET hd == [ZeroHeader EXCEPT !.Id = 4660, !.IsResponse = TRUE,
                                 !.IsAuthoritativeAnswer = TRUE,
                                 !.QuestionCount = Len(questions),
                                 !.AnswerCount = Len(ans),
                                 !.NameServerRecordsCount = Len(ns)]
        qs == [k \in 1..Len(questions) |->
                  [Qname |-> getDomainNameInQnameFormat(questions[k]),
                   Qtype |-> MessageTypeA, Qclass |-> MessageClassIN]]
        front == DnsHeaderGetBytes(hd) \o QuestionsBytes(qs, 1)
    IN  [questions |-> questions,
         answerCount |-> Len(ans),
         records |-> PlaceRecords(ans \o ns, Len(front)),
         full |-> front \o AllRecordBytes(ans \o ns)]

NameA == <<97>>
NameB == <<98>>
NameWww == <<119, 119, 119>>

QuestionLists == {<<>>, <<NameA>>, <<NameA, NameB>>}

\* answer records: the owner name as a pointer to the first question's name or as
\* labels; an address, an empty RDATA, and an RDATA of six bytes
AnswerShapes ==
    {Record("pointer", NameA, HeaderLength, MessageTypeA, [hi |-> 0, lo |-> 300], <<8, 8, 8, 8>>),
     Record("pointer", NameA, HeaderLength, TypeTXT, [hi |-> 65535, lo |-> 65535], <<>>),
     Record("pointer", NameA, HeaderLength, TypeTXT, [hi |-> 1, lo |-> 2], <<5, 104, 101, 108, 108, 111>>),
     Record("labels", NameB, 0, MessageTypeA, [hi |-> 0, lo |-> 300], <<8, 8, 4, 4>>)}

AuthorityShapes ==
    {Record("pointer", NameA, HeaderLength, TypeNS, [hi |-> 2, lo |-> 41856], <<1, 110, 192, 12>>)}

Responses ==
    {Compose(q, an, ns) : q \in QuestionLists,
                          an \in SeqsUpTo(AnswerShapes, MaxAnswers),
                          ns \in SeqsUpTo(AuthorityShapes, MaxAuthority)}

\* a response whose second answer points at a name stored at FarOffset, inside the
\* RDATA of the first answer
FarResponse ==
    LET lead == HeaderLength + Len(getDomainNameInQnameFormat(NameA)) + 4 + 12
        pad == [k \in 1..(FarOffset - lead) |-> 0]
    IN  Compose(<<NameA>>,
                <<Record("pointer", NameA, HeaderLength, TypeTXT, [hi |-> 0, lo |-> 60],
                         pad \o getDomainNameInQnameFormat(NameWww)),
                  Record("pointer", NameWww, FarOffset, MessageTypeA, [hi |-> 0, lo |-> 60],
                         <<8, 8, 8, 8>>)>>,
                <<>>)

\* where the first record of a response with the one question NameA starts
FirstRecordStart == HeaderLength + Len(getDomainNameInQnameFormat(NameA)) + 4

\* a record whose owner name is a pointer to offset target, with an address
PointerRecord(target) ==
    Record("pointer", <<>>, target, MessageTypeA, [hi |-> 0, lo |-> 60], <<8, 8, 8, 8>>)

\* responses whose compression pointers lead nowhere: one record pointing at its
\* own first byte, and two records each pointing at the other
LoopingResponses ==
    LET second == FirstRecordStart + Len(RecordBytes(PointerRecord(0)))
    IN  {Compose(<<NameA>>, <<PointerRecord(FirstRecordStart)>>, <<>>),
         Compose(<<NameA>>, <<PointerRecord(second), PointerRecord(FirstRecordStart)>>, <<>>)}

InitDecode ==
    /\ \/ /\ tc \in Responses \cup LoopingResponses
          /\ \E n \in 0..Len(tc.full) : rdr = NewByteReader(SubSeq(tc.full, 1, n), FALSE)
       \/ /\ tc = FarResponse
          /\ rdr = NewByteReader(tc.full, FALSE)
       \/ /\ tc = Compose(<<NameA>>, <<>>, <<>>)
          /\ rdr = NewByteReader(<<>>, TRUE)
    /\ pc = "PR_ReadId" /\ stack = <<>>
    /\ dnsHeader = ZeroHeader /\ answers = <<>> /\ loc = NoLoc /\ hist = NoHist
    /\ call = NoCall /\ ret = NoRet
    /\ h = ZeroHeader /\ wire = <<>>
    /\ domainName = <<>> /\ qname = <<>> /\ query = NoQuery

NextDecode ==
    \/ PR_ReadId
    \/ PR_ReadMeta
    \/ PR_ReadQuestionCount
    \/ PR_ReadAnswerCount
    \/ PR_ReadNameServerRecordsCount
    \/ PR_ReadAdditionalRecordsCount
    \/ PR_ReadQuestionName
    \/ PR_ReadQtype
    \/ PR_ReadQclass
    \/ PR_AnswerLoop
    \/ PR_AppendAnswer
    \/ PR_NameServerLoop
    \/ PR_NameServerNext
    \/ PA_ReadFirst
    \/ PA_ReadSecond
    \/ PA_SeekOffset
    \/ PA_AfterName
    \/ PA_ReadType
    \/ PA_ReadClass
    \/ PA_ReadTTL
    \/ PA_ReadDataLength
    \/ PA_ReadRdata
    \/ PA_BuildAnswer
    \/ RD_ReadLength
    \/ RD_ReadPart

SpecDecode == InitDecode /\ [][NextDecode]_vars

\* parseResponse runs on one goroutine and nothing blocks it: a statement that can
\* run does run
SpecDecodeFair == SpecDecode /\ WF_vars(NextDecode)

-----------------------------------------------------------------------------
\* Claims about the cursor (SpecCursor)

ReadOps == {"ReadBytes", "ReadSingleByte", "ReadUint16", "ReadUint32"}

\* the n bytes that follow the position of reader r
NextBytes(r, n) == SubSeq(r.s, GetCurrentPosition(r) + 1, GetCurrentPosition(r) + n)

\* the value a read method makes of the bytes it read, and its value for "no data"
ValueOfBytes(op, b) ==
    CASE op = "ReadBytes"      -> b
      [] op = "ReadSingleByte" -> b[1]
      [] op = "ReadUint16"     -> b[1] * 256 + b[2]
      [] op = "ReadUint32"     -> [hi |-> b[1] * 256 + b[2], lo |-> b[3] * 256 + b[4]]

NoData(op) ==
    CASE op = "ReadBytes"  -> <<>>
      [] op = "ReadUint32" -> Uint32Zero
      [] OTHER             -> 0

\* the last read failed: an error, no data, position and available bytes as before
ReadRefused ==
    /\ ret.err
    /\ ret.val = NoData(call.op)
    /\ GetCurrentPosition(rdr) = GetCurrentPosition(call.before)
    /\ GetAvailableBytes(rdr) = GetAvailableBytes(call.before)

\* the last read succeeded: the next n bytes, the position advanced by n
ReadServed ==
    /\ ~ret.err
    /\ ret.val = ValueOfBytes(call.op, NextBytes(call.before, call.n))
    /\ GetCurrentPosition(rdr) = GetCurrentPosition(call.before) + call.n

\* C8 as stated: a read of n bytes fails, moving nothing, when n exceeds the
\* remaining bytes, and otherwise returns the next n bytes and advances by n.
C8_TruncationAsStated ==
    call.op \in ReadOps =>
        IF call.n > GetAvailableBytes(call.before) THEN ReadRefused ELSE ReadServed

\* C8 amended: the same on a reader built over a non-nil slice; on a reader built
\* over the nil slice every read, ReadBytes(0) included, fails and moves nothing.
C8_Truncation ==
    call.op \in ReadOps =>
        IF call.before.nil \/ call.n > GetAvailableBytes(call.before)
        THEN ReadRefused ELSE ReadServed

\* C8 witness: ReadBytes(2) served from position 1, and the position is now 3
C8_Witness ==
    /\ call.op = "ReadBytes" /\ call.n = 2
    /\ ~call.before.nil /\ GetCurrentPosition(call.before) = 1
    /\ ~ret.err /\ Len(ret.val) = 2 /\ GetCurrentPosition(rdr) = 3

\* the position SeekPosition(offset, whence) asks for, from the position before
SeekTarget ==
    CASE call.whence = SeekStart   -> call.offset
      [] call.whence = SeekCurrent -> GetCurrentPosition(call.before) + call.offset
      [] call.whence = SeekEnd     -> Len(call.before.s) + call.offset

\* C9: SeekPosition fails, moving nothing, when the resulting position is negative
\* or greater than the buffer length, and otherwise succeeds with the position
\* equal to the resulting position.
C9_SeekBounds ==
    (call.op = "SeekPosition" /\ call.whence \in {SeekStart, SeekCurrent, SeekEnd}) =>
        IF SeekTarget < 0 \/ SeekTarget > Len(call.before.s)
        THEN ret.err /\ GetCurrentPosition(rdr) = GetCurrentPosition(call.before)
        ELSE ~ret.err /\ GetCurrentPosition(rdr) = SeekTarget

-----------------------------------------------------------------------------
\* Claims about the decoder (SpecDecode)

\* the record parseAnswersFromResponse was last called for, by its place in the
\* response (answers first, then authority records)
CurrentRecord == tc.records[hist.records]

\* the bytes at offset p of the response are the labels of name, zero-terminated
NameStoredAt(p, name) ==
    SubSeq(tc.full, p + 1, p + Len(name) + 2) = getDomainNameInQnameFormat(name)

\* parseAnswersFromResponse was entered with the cursor at the start of a
\* well-formed record that the buffer holds whole: its owner name is either its
\* labels or a pointer to an offset where those labels are stored
RecordAtCursor ==
    /\ tc # NoTc /\ ~rdr.nil
    /\ hist.records \in 1..Len(tc.records)
    /\ hist.recordStart = CurrentRecord.start
    /\ CurrentRecord.end <= Len(rdr.s)
    /\ CurrentRecord.kind = "pointer" => NameStoredAt(CurrentRecord.target, CurrentRecord.name)

\* parseAnswersFromResponse has returned to parseResponse
RecordReturned == pc \in {"PR_AppendAnswer", "PR_NameServerNext"}

\* C6: for a name field that is a two-byte pointer, the offset is the low six bits
\* of the first byte as high bits and the second byte as low bits, the name
\* returned is the label sequence stored at that offset, and the cursor is put
\* back immediately after the pointer; for every in-bounds offset in 0..16383.
C6_PointerDecode ==
    (pc = "PA_ReadType" /\ RecordAtCursor /\ CurrentRecord.kind = "pointer") =>
        /\ loc.compressed
        /\ loc.offset = CurrentRecord.target
        /\ loc.domainFromResponse = CurrentRecord.name
        /\ GetCurrentPosition(rdr) = CurrentRecord.start + 2

\* C7: for a well-formed record at the cursor, with its name as labels or as a
\* pointer, of any type and any RDLENGTH >= 0, parseAnswersFromResponse does not
\* abort, returns the record's owner name, type, class and TTL, and leaves the
\* cursor at the first byte past the record's RDATA.
C7_RecordCursor ==
    RecordAtCursor =>
        /\ pc # "panic"
        /\ RecordReturned =>
              /\ loc.ans.Domain = CurrentRecord.name
              /\ loc.ans.RecordType = CurrentRecord.rt
              /\ loc.ans.RecordClass = CurrentRecord.rc
              /\ loc.ans.TTL = CurrentRecord.ttl
              /\ GetCurrentPosition(rdr) = CurrentRecord.end

\* C10: once a cursor call of the decode has failed, no further cursor read or
\* seek is made, no answer is appended, and the process is not aborted.
C10_StopAtFirstError ==
    (tc # NoTc /\ hist.failed) =>
        /\ hist.callsAfterFailure = 0
        /\ hist.answersAfterFailure = 0
        /\ pc # "panic"

\* the whole response is in the buffer
WholeResponse == tc # NoTc /\ ~rdr.nil /\ rdr.s = tc.full

\* C11: parseResponse consumes exactly QuestionCount questions after the header, so
\* that the first record is decoded from the byte after the last question, for
\* every QuestionCount (0 and more than 1 included); it then decodes exactly
\* AnswerCount records into the answer list, in wire order, and exactly
\* NameServerRecordsCount further records, so the answer list is AnswerCount long.
C11_CountDrivenSections ==
    WholeResponse =>
        /\ (pc = "PA_ReadFirst" /\ hist.records = 0) =>
              GetCurrentPosition(rdr) = tc.records[1].start
        /\ pc = "done" =>
              /\ hist.records = Len(tc.records)
              /\ Len(answers) = tc.answerCount
              /\ \A k \in 1..Len(answers) :
                    /\ answers[k].RecordType = tc.records[k].rt
                    /\ answers[k].TTL = tc.records[k].ttl

\* parseResponse has returned, or the process has panicked
Terminated == pc \in {"done", "panic"}

\* an iteration of the loop of readDomainFromResponse that goes on to read a label
\* has consumed its length byte
LabelLoopAdvances ==
    (pc = "RD_ReadLength" /\ pc' = "RD_ReadPart") =>
        GetCurrentPosition(rdr') > GetCurrentPosition(rdr)

\* parseAnswersFromResponse has been called at most once per counted record, and
\* the loop counters are within the counts
LoopsWithinCounts ==
    /\ hist.records <= dnsHeader.AnswerCount + dnsHeader.NameServerRecordsCount
    /\ loc.i <= dnsHeader.AnswerCount
    /\ loc.j <= dnsHeader.NameServerRecordsCount
    /\ Len(answers) <= dnsHeader.AnswerCount

\* C12: for every response buffer (whole, cut short, with label lengths past the
\* remaining data, with pointers at themselves or at each other) the decode ends:
\* each iteration of the label loop consumes a byte or ends the loop, the answer and
\* authority loops run at most AnswerCount and NameServerRecordsCount times, and
\* parseResponse eventually returns or the process ends.
C12_DecodeTerminates ==
    /\ [][LabelLoopAdvances]_vars
    /\ []LoopsWithinCounts
    /\ <>Terminated

\* C12 witness: the response whose two records point at each other has been decoded
\* to the end, a label length on the way having exceeded the remaining data
C12_Witness ==
    /\ pc = "done" /\ tc \in LoopingResponses /\ Len(tc.records) = 2
    /\ rdr.s = tc.full /\ hist.failed /\ Len(answers) = 2

====
